---- MODULE Spec2Model ----
(***************************************************************************)
(* Model of the MdsBrowser overlay (packages/cli/src/ui/components/        *)
(* MdsBrowser.tsx) and of the DriveManager operations it calls             *)
(* (packages/core/src/utils/driveManager.ts).                              *)
(*                                                                         *)
(* One action is one task of the single-threaded event loop: a key event   *)
(* dispatched to the useKeypress handler together with the re-render and   *)
(* the effects it triggers, the settlement of a promise with its whole     *)
(* then/catch/finally chain, or the return of a spawnSync call.            *)
(* Strings whose characters matter (paths, file names) are tuples of       *)
(* one-character strings.                                                  *)
(***************************************************************************)
EXTENDS Integers, Sequences, FiniteSets, TLC

(* ---------------------------- bounds ----------------------------------- *)

\* Largest number of events (feedback, close, editor-closed) a run records;
\* operations are started only while their events still fit.
MaxTrace == 4

\* Largest number of DriveManager calls (list, download, upload) a run makes.
MaxOps == 3

\* Longest remote listing the scroll window is computed for.
MaxListLen == 12

\* Most paths getGeminiMdFilePaths() answers, and most definitions the agent
\* registry holds, when the Entry Resolver is checked on every input.
MaxDocs == 2

MaxDefs == 1

(* ---------------------------- strings ---------------------------------- *)

Upper == <<"A","B","C","D","E","F","G","H","I","J","K","L","M",
           "N","O","P","Q","R","S","T","U","V","W","X","Y","Z">>

Lower == <<"a","b","c","d","e","f","g","h","i","j","k","l","m",
           "n","o","p","q","r","s","t","u","v","w","x","y","z">>

LowerChar(c) ==
    IF \E i \in 1..26 : Upper[i] = c
    THEN Lower[CHOOSE i \in 1..26 : Upper[i] = c]
    ELSE c

toLowerCase(s) == [i \in 1..Len(s) |-> LowerChar(s[i])]

endsWith(s, suf) ==
    /\ Len(s) >= Len(suf)
    /\ SubSeq(s, Len(s) - Len(suf) + 1, Len(s)) = suf

\* Collation rank of a character: punctuation before letters, letters in
\* alphabetical order whatever their case.
Rank(c) ==
    IF c = "." THEN 1
    ELSE IF c = "/" THEN 2
    ELSE 2 + (CHOOSE i \in 1..26 : Lower[i] = LowerChar(c))

IsUpper(c) == \E i \in 1..26 : Upper[i] = c

\* First position where a and b differ at the given strength, 0 if none.
FirstDiff(a, b, primary) ==
    LET n == IF Len(a) < Len(b) THEN Len(a) ELSE Len(b)
        D == {i \in 1..n : IF primary THEN Rank(a[i]) # Rank(b[i])
                                      ELSE a[i] # b[i]}
    IN IF D = {} THEN 0 ELSE CHOOSE i \in D : \A j \in D : i <= j

\* a.localeCompare(b): negative, zero or positive. Letters first compare
\* without regard to case; only then a lower-case letter sorts first.
localeCompare(a, b) ==
    LET p == FirstDiff(a, b, TRUE)
        t == FirstDiff(a, b, FALSE)
    IN IF p # 0 THEN (IF Rank(a[p]) < Rank(b[p]) THEN -1 ELSE 1)
       ELSE IF Len(a) # Len(b) THEN (IF Len(a) < Len(b) THEN -1 ELSE 1)
       ELSE IF t # 0 THEN (IF IsUpper(b[t]) THEN -1 ELSE 1)
       ELSE 0

(* ------------------------- inputs of the model ------------------------- *)

P_AGENTS_MD == <<"/","a","/","A","G","E","N","T","S",".","m","d">>
P_NOTES_MD  == <<"/","a","/","n","o","t","e","s",".","m","d">>
P_TOOL_MD   == <<"/","b","/","t","o","o","l",".","m","d">>
P_X_AGENTS  == <<"/","b","/","x",".","a","g","e","n","t","s">>

P_ZED_MD == <<"/","b","/","Z","e","d",".","m","d">>

\* The paths documents and definitions are drawn from.
PathPool == {P_AGENTS_MD, P_NOTES_MD, P_ZED_MD, P_TOOL_MD, P_X_AGENTS}

N_SPEC_AGENTS == <<"s","p","e","c",".","a","g","e","n","t","s">>
N_SKILL_UPPER == <<"s",".","A","G","E","N","T","S">>

\* A definition without metadata.filePath.
NoPath == <<>>

\* The values a Config can answer getGeminiMdFilePaths() and
\* getAgentRegistry().getAllDefinitions() with.
Configs ==
    { [md |-> <<P_NOTES_MD, P_AGENTS_MD, P_TOOL_MD>>, defs |-> <<P_TOOL_MD, NoPath>>],
      [md |-> <<P_NOTES_MD>>, defs |-> <<P_X_AGENTS>>],
      [md |-> <<>>, defs |-> <<>>] }

InitialConfig == [md |-> <<P_NOTES_MD, P_AGENTS_MD, P_TOOL_MD>>, defs |-> <<P_TOOL_MD, NoPath>>]

\* The values drive.files.list can answer with.
DriveListings ==
    { <<>>,
      << [id |-> "xyz", name |-> N_SPEC_AGENTS],
         [id |-> "id2", name |-> N_SKILL_UPPER] >> }

\* A listing of n remote files.
LongListing(n) == [i \in 1..n |-> [id |-> ToString(i), name |-> N_SPEC_AGENTS]]

\* The terminal heights (rows) the overlay is rendered at.
TerminalRows == {12, 16, 17, 20, 24}

Commands == {"SAVE_TO_DRIVE", "IMPORT_FROM_DRIVE", "MOVE_DOWN", "HISTORY_DOWN",
             "MOVE_UP", "HISTORY_UP", "OPEN_EXTERNAL_EDITOR", "OPEN_FILE_LOCATION"}

KeyNames == {"escape", "return", "enter", "other"}

\* A key event: its name and the keymap commands whose matcher accepts it.
Keys == [name : KeyNames, cmds : SUBSET Commands]

\* What spawnSync can return for the editor: exit 0, exit 1, killed by a
\* signal (status null), or a spawn error.
NullStatus == -1

SpawnResults ==
    { [status |-> 0, error |-> FALSE],
      [status |-> 1, error |-> FALSE],
      [status |-> NullStatus, error |-> FALSE],
      [status |-> NullStatus, error |-> TRUE] }

(* ------------------------------ state ---------------------------------- *)

VARIABLES
    config,          \* the config prop
    activeIndex,     \* useState(0)
    viewMode,        \* useState('local')
    driveFiles,      \* useState([])
    isDriveLoading,  \* useState(false)
    pending,         \* DriveManager promises not yet settled
    nextOp,          \* number the next started promise gets
    trace,           \* feedback events, onClose calls, editor-closed events
    open,            \* the overlay is mounted
    rawMode,         \* terminal raw mode, as last set through setRawMode
    spawned,         \* the spawnSync call the event loop is blocked in
    handled,         \* what the key handler returned last
    terminalHeight   \* useTerminalSize().rows

vars == <<config, activeIndex, viewMode, driveFiles, isDriveLoading, pending,
          nextOp, trace, open, rawMode, spawned, handled, terminalHeight>>

(* --------------------------- Entry Resolver ---------------------------- *)

\* Array.from(new Set(seq)): the distinct elements in order of first occurrence.
RECURSIVE Dedup(_)
Dedup(s) ==
    IF s = <<>> THEN <<>>
    ELSE LET r == Dedup(SubSeq(s, 1, Len(s) - 1))
             x == s[Len(s)]
         IN IF \E i \in 1..Len(r) : r[i] = x THEN r ELSE Append(r, x)

\* The union of the two inputs kept as an array, without the Set.
allPathsWithDuplicates(cfg) == cfg.md \o SelectSeq(cfg.defs, LAMBDA d : d # NoPath)

\* The classification by name alone, without the registry.
classifyByName(cfg, p) ==
    IF \/ endsWith(toLowerCase(p), <<"a","g","e","n","t","s",".","m","d">>)
       \/ endsWith(toLowerCase(p), <<".","a","g","e","n","t","s">>)
    THEN "Agent" ELSE "Memory"

\* The filePath of every definition that has one.
agentPaths(cfg) == {cfg.defs[i] : i \in {j \in 1..Len(cfg.defs) : cfg.defs[j] # NoPath}}

agentPathSeq(cfg) == Dedup(SelectSeq(cfg.defs, LAMBDA d : d # NoPath))

allPaths(cfg) == Dedup(cfg.md \o agentPathSeq(cfg))

\* Whether a name ends, whatever its case, with an agent-file marker.
hasAgentMarker(p) ==
    \/ endsWith(toLowerCase(p), <<"a","g","e","n","t","s",".","m","d">>)
    \/ endsWith(toLowerCase(p), <<".","a","g","e","n","t","s">>)

classify(cfg, p) ==
    IF p \in agentPaths(cfg) \/ hasAgentMarker(p) THEN "Agent" ELSE "Memory"

TypeChars(t) ==
    IF t = "Agent" THEN <<"A","g","e","n","t">> ELSE <<"M","e","m","o","r","y">>

\* The comparator handed to sort, as "a sorts before b".
entryBefore(a, b) ==
    IF a.type # b.type
    THEN localeCompare(TypeChars(a.type), TypeChars(b.type)) < 0
    ELSE localeCompare(a.path, b.path) < 0

localFiles(cfg) ==
    LET ps == allPaths(cfg)
        es == [i \in 1..Len(ps) |-> [path |-> ps[i], type |-> classify(cfg, ps[i]), id |-> ""]]
    IN SortSeq(es, entryBefore)

(* ------------------------- derived view state -------------------------- *)

\* useMemo(..., [config]): the list is recomputed exactly when config changes.
LocalFilesOf == [c \in Configs |-> localFiles(c)]

files == IF viewMode = "local" THEN LocalFilesOf[config] ELSE driveFiles

NoFile == [path |-> <<>>, type |-> "Unknown", id |-> ""]

\* fs[i], NoFile standing for undefined.
fileAt(fs, i) == IF i + 1 \in DOMAIN fs THEN fs[i + 1] ELSE NoFile

activeFile == fileAt(files, activeIndex)

Min(a, b) == IF a < b THEN a ELSE b

Max(a, b) == IF a > b THEN a ELSE b

(* --------------------------- recorded events --------------------------- *)

\* coreEvents.emitFeedback(level, msg + detail), emitted for promise op.
Feedback(level, msg, detail, op) ==
    [ev |-> "feedback", level |-> level, msg |-> msg, detail |-> detail, op |-> op]

\* A call of onClose, made by the named branch or promise chain.
CloseEvent(by, op) ==
    [ev |-> "close", level |-> "", msg |-> by, detail |-> "", op |-> op]

\* coreEvents.emit(CoreEvent.ExternalEditorClosed)
EditorClosedEvent ==
    [ev |-> "ExternalEditorClosed", level |-> "", msg |-> "", detail |-> "", op |-> 0]

Promise(op, kind, fileId, fileName) ==
    [op |-> op, kind |-> kind, fileId |-> fileId, fileName |-> fileName]

\* Events the promises in flight, and a running editor, can still record.
Reserved ==
    2 * Cardinality({p \in pending : p.kind = "download"})
    + Cardinality({p \in pending : p.kind # "download"})
    + (IF spawned = "editor" THEN 2 ELSE 0)

Room(n) == Len(trace) + Reserved + n <= MaxTrace

\* Whether the run may make another DriveManager call.
MayCall == nextOp <= MaxOps

\* The event loop runs a task only when no spawnSync call is blocking it.
EventLoopFree == spawned = "none"

(* ----------------------------- DriveManager ---------------------------- *)

\* What the Drive service does to one call: nothing wrong, credentials
\* cannot be obtained (getDriveClient throws), or a Drive request throws.
ListFaults == {"none", "auth", "request"}

\* listFiles(): getDriveClient is awaited outside the try block, so its
\* failure rejects; a failure inside the try block is logged and answered
\* with the empty list.
listFiles(fault, listing) ==
    IF fault = "auth" THEN [rejected |-> TRUE, value |-> <<>>]
    ELSE IF fault = "request" THEN [rejected |-> FALSE, value |-> <<>>]
    ELSE [rejected |-> FALSE, value |-> listing]

\* The destination directory downloadFile chooses.
destDir(fileName) ==
    IF endsWith(fileName, <<".","A","G","E","N","T","S">>) THEN "skills" ELSE "cwd"

\* downloadFile(fileId, fileName): every failure is logged and rethrown.
downloadFile(fileId, fileName, fault) ==
    IF fault # "none" THEN [rejected |-> TRUE, dir |-> ""]
    ELSE [rejected |-> FALSE, dir |-> destDir(fileName)]

\* uploadFile(localFilePath): every failure is logged and rethrown.
uploadFile(localFilePath, fault) == [rejected |-> fault # "none"]

(* --------------------------- overlay: pieces --------------------------- *)

\* The handler with the SAVE_TO_DRIVE test ahead of the escape test.
BranchSaveFirst(key) ==
    IF "SAVE_TO_DRIVE" \in key.cmds THEN "save"
    ELSE IF key.name = "escape" THEN "escape"
    ELSE IF key.name = "return" \/ key.name = "enter" THEN "activate"
    ELSE IF "IMPORT_FROM_DRIVE" \in key.cmds THEN "toggle"
    ELSE IF "MOVE_DOWN" \in key.cmds \/ "HISTORY_DOWN" \in key.cmds THEN "down"
    ELSE IF "MOVE_UP" \in key.cmds \/ "HISTORY_UP" \in key.cmds THEN "up"
    ELSE IF "OPEN_EXTERNAL_EDITOR" \in key.cmds THEN "editor"
    ELSE IF "OPEN_FILE_LOCATION" \in key.cmds THEN "folder"
    ELSE "none"

\* The branch of the useKeypress handler a key event takes: the first test
\* that accepts it.
Branch(key) ==
    IF key.name = "escape" THEN "escape"
    ELSE IF key.name = "return" \/ key.name = "enter" THEN "activate"
    ELSE IF "SAVE_TO_DRIVE" \in key.cmds THEN "save"
    ELSE IF "IMPORT_FROM_DRIVE" \in key.cmds THEN "toggle"
    ELSE IF "MOVE_DOWN" \in key.cmds \/ "HISTORY_DOWN" \in key.cmds THEN "down"
    ELSE IF "MOVE_UP" \in key.cmds \/ "HISTORY_UP" \in key.cmds THEN "up"
    ELSE IF "OPEN_EXTERNAL_EDITOR" \in key.cmds THEN "editor"
    ELSE IF "OPEN_FILE_LOCATION" \in key.cmds THEN "folder"
    ELSE "none"

Branches == {"escape", "activate", "save", "toggle", "down", "up", "editor",
             "folder", "none"}

\* The names of the key events that take each branch. Past the choice of
\* its branch the handler reads nothing of a key event but its name.
KeyNamesOf == [b \in Branches |-> {k.name : k \in {j \in Keys : Branch(j) = b}}]

\* The handler is registered while the overlay is mounted and runs when the
\* event loop delivers a key event.
Dispatched(name, branch) == open /\ EventLoopFree /\ name \in KeyNamesOf[branch]

\* onClose(): the call is recorded; the host then unmounts the overlay.
onClose(tr, by, op) == Append(tr, CloseEvent(by, op))

\* Whether the overlay is still mounted once onClose has been called.
MountedAfterClose == FALSE

\* The promises in flight if closing aborted them.
pendingCancelledOnClose(ps) == {}

\* The promises in flight once onClose has been called: nothing cancels them.
pendingAfterClose(ps) == ps

\* The effect's condition without its test of the cache.
ShouldFetchAnyCache(vm, df, loading) == vm = "drive" /\ ~loading

\* The effect's condition without its test of isDriveLoading.
ShouldFetchUngated(vm, df, loading) == vm = "drive" /\ Len(df) = 0

\* The condition of the list-fetch effect.
ShouldFetch(vm, df, loading) == vm = "drive" /\ Len(df) = 0 /\ ~loading

\* The list-fetch effect, run after a render in which viewMode or config
\* changed, on the values of that render.
FetchEffect(vm) ==
    IF ShouldFetch(vm, driveFiles, isDriveLoading)
    THEN /\ Room(1)
         /\ MayCall
         /\ isDriveLoading' = TRUE
         /\ pending' = pending \cup {Promise(nextOp, "list", "", <<>>)}
         /\ nextOp' = nextOp + 1
    ELSE UNCHANGED <<isDriveLoading, pending, nextOp>>

\* setViewMode('drive') in place of the flip.
toggleViewStuck(prev) == "drive"

toggleView(prev) == IF prev = "local" THEN "drive" ELSE "local"

toggleIndex == 0

\* MOVE_DOWN clamped to the list's length instead of its last index.
moveDownPastEnd(prev, fs) == Min(prev + 1, Len(fs))

moveDown(prev, fs) == Min(prev + 1, Max(0, Len(fs) - 1))

moveUp(prev) == Max(prev - 1, 0)

\* The rows left for the list.
availableHeight(rows) == Max(5, rows - 10)

\* The window's first index without its lower clamp.
startIdxUnclamped(c, n, h) == Min(c - (h \div 2), n - h)

\* The first index of the scroll window: cursor c, list length n, height h.
startIdx(c, n, h) == Max(0, Min(c - (h \div 2), n - h))

endIdx(c, n, h) == startIdx(c, n, h) + h

\* fs.slice(s, e) for 0 <= s <= e.
visibleFiles(fs, s, e) == SubSeq(fs, Min(s, Len(fs)) + 1, Min(e, Len(fs)))

\* f.map((item) => ({ path: item.name, type: 'Drive', id: item.id }))
toEntries(f) == [i \in 1..Len(f) |-> [path |-> f[i].name, type |-> "Drive", id |-> f[i].id]]

\* Whether openFileInEditor throws on what spawnSync returned.
editorThrows(r) == r.error \/ (r.status # NullStatus /\ r.status # 0)

\* Raw mode restored after the try block instead of in finally.
rawModeAfterEditorNoFinally(r) == ~editorThrows(r)

\* The raw mode openFileInEditor leaves behind (finally).
rawModeAfterEditor(r) == TRUE

\* The fallthrough of the handler returning false.
handlerReturnsFallthrough(branch) == branch # "none"

\* What the handler returns at the end of each branch.
handlerReturns(branch) == TRUE

\* Whether the Enter branch downloads rather than closes at once.
downloads(vm, f) == vm = "drive" /\ f.id # ""

\* The SAVE_TO_DRIVE branch without its test of viewMode.
uploadsAnySource(vm, f) == f # NoFile

\* Whether the SAVE_TO_DRIVE branch uploads.
uploads(vm, f) == vm = "local" /\ f # NoFile

(* ------------------------- overlay: key events ------------------------- *)

Escape ==
    \E name \in KeyNames :
        /\ Dispatched(name, "escape")
        /\ Room(1)
        /\ trace' = onClose(trace, "escape", 0)
        /\ open' = MountedAfterClose
        /\ pending' = pendingAfterClose(pending)
        /\ handled' = handlerReturns("escape")
        /\ UNCHANGED <<terminalHeight, config, activeIndex, viewMode, driveFiles, isDriveLoading,
                       nextOp, rawMode, spawned>>

Activate ==
    \E name \in KeyNames :
        /\ Dispatched(name, "activate")
        /\ IF downloads(viewMode, activeFile)
           THEN /\ Room(3)
                /\ MayCall
                /\ trace' = Append(trace, Feedback("info", "Downloading", "", nextOp))
                /\ pending' = pending \cup
                       {Promise(nextOp, "download", activeFile.id, activeFile.path)}
                /\ nextOp' = nextOp + 1
                /\ UNCHANGED open
           ELSE /\ Room(1)
                /\ trace' = onClose(trace, "activate", 0)
                /\ open' = MountedAfterClose
                /\ pending' = pendingAfterClose(pending)
                /\ UNCHANGED nextOp
        /\ handled' = handlerReturns("activate")
        /\ UNCHANGED <<terminalHeight, config, activeIndex, viewMode, driveFiles, isDriveLoading,
                       rawMode, spawned>>

SaveToDrive ==
    \E name \in KeyNames :
        /\ Dispatched(name, "save")
        /\ IF uploads(viewMode, activeFile)
           THEN /\ Room(2)
                /\ MayCall
                /\ trace' = Append(trace, Feedback("info", "Saving", "", nextOp))
                /\ pending' = pending \cup {Promise(nextOp, "upload", "", activeFile.path)}
                /\ nextOp' = nextOp + 1
           ELSE UNCHANGED <<trace, pending, nextOp>>
        /\ handled' = handlerReturns("save")
        /\ UNCHANGED <<terminalHeight, config, activeIndex, viewMode, driveFiles, isDriveLoading,
                       open, rawMode, spawned>>

ToggleSource ==
    \E name \in KeyNames :
        /\ Dispatched(name, "toggle")
        /\ viewMode' = toggleView(viewMode)
        /\ activeIndex' = toggleIndex
        /\ FetchEffect(viewMode')
        /\ handled' = handlerReturns("toggle")
        /\ UNCHANGED <<terminalHeight, config, driveFiles, trace, open, rawMode, spawned>>

MoveDown ==
    \E name \in KeyNames :
        /\ Dispatched(name, "down")
        /\ activeIndex' = moveDown(activeIndex, files)
        /\ handled' = handlerReturns("down")
        /\ UNCHANGED <<terminalHeight, config, viewMode, driveFiles, isDriveLoading, pending,
                       nextOp, trace, open, rawMode, spawned>>

MoveUp ==
    \E name \in KeyNames :
        /\ Dispatched(name, "up")
        /\ activeIndex' = moveUp(activeIndex)
        /\ handled' = handlerReturns("up")
        /\ UNCHANGED <<terminalHeight, config, viewMode, driveFiles, isDriveLoading, pending,
                       nextOp, trace, open, rawMode, spawned>>

\* openFileInEditor up to its spawnSync call, which blocks the event loop.
OpenEditor ==
    \E name \in KeyNames :
        /\ Dispatched(name, "editor")
        /\ IF viewMode = "local" /\ activeFile # NoFile
           THEN /\ Room(2)
                /\ rawMode' = FALSE
                /\ spawned' = "editor"
                /\ UNCHANGED handled
           ELSE /\ handled' = handlerReturns("editor")
                /\ UNCHANGED <<rawMode, spawned>>
        /\ UNCHANGED <<terminalHeight, config, activeIndex, viewMode, driveFiles, isDriveLoading,
                       pending, nextOp, trace, open>>

\* spawnSync returns r to openFileInEditor: catch, finally; the handler returns.
EditorExitWith(r) ==
    /\ spawned = "editor"
    /\ trace' = (IF editorThrows(r)
                 THEN Append(trace, Feedback("error", "external editor error", "", 0))
                 ELSE trace) \o <<EditorClosedEvent>>
    /\ rawMode' = rawModeAfterEditor(r)
    /\ spawned' = "none"
    /\ handled' = handlerReturns("editor")
    /\ UNCHANGED <<terminalHeight, config, activeIndex, viewMode, driveFiles, isDriveLoading,
                   pending, nextOp, open>>

EditorExit == \E r \in SpawnResults : EditorExitWith(r)

\* openFolder up to its spawnSync call, which blocks the event loop.
OpenFolder ==
    \E name \in KeyNames :
        /\ Dispatched(name, "folder")
        /\ IF viewMode = "local" /\ activeFile # NoFile
           THEN /\ spawned' = "folder"
                /\ UNCHANGED handled
           ELSE /\ handled' = handlerReturns("folder")
                /\ UNCHANGED spawned
        /\ UNCHANGED <<terminalHeight, config, activeIndex, viewMode, driveFiles, isDriveLoading,
                       pending, nextOp, trace, open, rawMode>>

\* spawnSync returns to openFolder, whatever became of the command: it
\* reports failures in its result, which openFolder does not read. The
\* handler returns.
FolderExit ==
    /\ spawned = "folder"
    /\ spawned' = "none"
    /\ handled' = handlerReturns("folder")
    /\ UNCHANGED <<terminalHeight, config, activeIndex, viewMode, driveFiles, isDriveLoading,
                   pending, nextOp, trace, open, rawMode>>

\* A key no test of the handler accepts.
Unhandled ==
    \E name \in KeyNames :
        /\ Dispatched(name, "none")
        /\ handled' = handlerReturns("none")
        /\ UNCHANGED <<terminalHeight, config, activeIndex, viewMode, driveFiles, isDriveLoading,
                       pending, nextOp, trace, open, rawMode, spawned>>

(* --------------------- overlay: promise settlements -------------------- *)

\* The events the chain on listFiles() records when it settles with r:
\* catch (error feedback).
listChain(tr, p, r) ==
    IF r.rejected
    THEN Append(tr, Feedback("error", "Failed to list Drive files", "", p.op))
    ELSE tr

\* The flag cleared in then instead of in finally.
loadingAfterListThenOnly(r) == r.rejected

\* isDriveLoading once the chain on listFiles() has run: finally.
loadingAfterList(r) == FALSE

\* listFiles() of promise p settles: then (setDriveFiles), catch, finally.
ListSettleWith(p, fault, listing) ==
    LET r == listFiles(fault, listing) IN
    /\ EventLoopFree
    /\ p \in pending
    /\ p.kind = "list"
    /\ pending' = pending \ {p}
    /\ driveFiles' = (IF r.rejected THEN driveFiles ELSE toEntries(r.value))
    /\ trace' = listChain(trace, p, r)
    /\ isDriveLoading' = loadingAfterList(r)
    /\ UNCHANGED <<terminalHeight, config, activeIndex, viewMode, nextOp, open, rawMode, spawned, handled>>

ListSettle ==
    \E p \in pending, fault \in ListFaults, listing \in DriveListings :
        /\ fault = "none" \/ listing = <<>>
        /\ ListSettleWith(p, fault, listing)

\* The chain on downloadFile() with onClose called before the feedback.
downloadChainCloseFirst(tr, p, r) ==
    Append(onClose(tr, "download", p.op),
           IF r.rejected
           THEN Feedback("error", "Download failed", "", p.op)
           ELSE Feedback("info", "File downloaded to", r.dir, p.op))

\* The events the chain on downloadFile() records when it settles with r:
\* then or catch (feedback), finally (onClose).
downloadChain(tr, p, r) ==
    onClose(Append(tr, IF r.rejected
                       THEN Feedback("error", "Download failed", "", p.op)
                       ELSE Feedback("info", "File downloaded to", r.dir, p.op)),
            "download", p.op)

\* downloadFile() of promise p settles.
DownloadSettleWith(p, fault) ==
    LET r == downloadFile(p.fileId, p.fileName, fault) IN
    /\ EventLoopFree
    /\ p \in pending
    /\ p.kind = "download"
    /\ trace' = downloadChain(trace, p, r)
    /\ open' = MountedAfterClose
    /\ pending' = pendingAfterClose(pending \ {p})
    /\ UNCHANGED <<terminalHeight, config, activeIndex, viewMode, driveFiles, isDriveLoading,
                   nextOp, rawMode, spawned, handled>>

DownloadSettle == \E p \in pending, fault \in {"none", "request"} : DownloadSettleWith(p, fault)

\* uploadFile() of promise p settles: then or catch (feedback).
UploadSettleWith(p, fault) ==
    LET r == uploadFile(p.fileName, fault) IN
    /\ EventLoopFree
    /\ p \in pending
    /\ p.kind = "upload"
    /\ pending' = pending \ {p}
    /\ trace' = Append(trace, IF r.rejected
                              THEN Feedback("error", "Upload failed", "", p.op)
                              ELSE Feedback("info", "Successfully uploaded", "", p.op))
    /\ UNCHANGED <<terminalHeight, config, activeIndex, viewMode, driveFiles, isDriveLoading,
                   nextOp, open, rawMode, spawned, handled>>

UploadSettle == \E p \in pending, fault \in {"none", "request"} : UploadSettleWith(p, fault)

(* ----------------------- overlay: changed inputs ----------------------- *)

\* The host re-renders the overlay with another config: localFiles is
\* recomputed and the list-fetch effect runs again.
ConfigChange ==
    \E c \in Configs :
        /\ open
        /\ EventLoopFree
        /\ c # config
        /\ config' = c
        /\ FetchEffect(viewMode)
        /\ UNCHANGED <<terminalHeight, activeIndex, viewMode, driveFiles, trace, open, rawMode,
                       spawned, handled>>

\* getGeminiMdFilePaths() answers one more path at the next render.
AddDocument ==
    \E p \in PathPool :
        /\ open
        /\ EventLoopFree
        /\ Len(config.md) < MaxDocs
        /\ config' = [config EXCEPT !.md = Append(@, p)]
        /\ FetchEffect(viewMode)
        /\ UNCHANGED <<terminalHeight, activeIndex, viewMode, driveFiles, trace, open, rawMode,
                       spawned, handled>>

\* The agent registry holds one more definition, with or without a filePath,
\* at the next render.
RegisterDefinition ==
    \E d \in PathPool \cup {NoPath} :
        /\ open
        /\ EventLoopFree
        /\ Len(config.defs) < MaxDefs
        /\ config' = [config EXCEPT !.defs = Append(@, d)]
        /\ FetchEffect(viewMode)
        /\ UNCHANGED <<terminalHeight, activeIndex, viewMode, driveFiles, trace, open, rawMode,
                       spawned, handled>>

\* The terminal is resized: useTerminalSize answers another number of rows.
Resize ==
    \E rows \in TerminalRows :
        /\ open
        /\ EventLoopFree
        /\ rows # terminalHeight
        /\ terminalHeight' = rows
        /\ UNCHANGED <<config, activeIndex, viewMode, driveFiles, isDriveLoading, pending,
                       nextOp, trace, open, rawMode, spawned, handled>>

(* --------------------------- specification ----------------------------- *)

Init ==
    /\ config = InitialConfig
    /\ activeIndex = 0
    /\ viewMode = "local"
    /\ driveFiles = <<>>
    /\ isDriveLoading = FALSE
    /\ pending = {}
    /\ nextOp = 1
    /\ trace = <<>>
    /\ open = TRUE
    /\ rawMode = TRUE
    /\ spawned = "none"
    /\ handled = FALSE
    /\ terminalHeight = 24

Next ==
    \/ Escape
    \/ Activate
    \/ SaveToDrive
    \/ ToggleSource
    \/ MoveDown
    \/ MoveUp
    \/ OpenEditor
    \/ EditorExit
    \/ OpenFolder
    \/ FolderExit
    \/ Unhandled
    \/ ListSettle
    \/ DownloadSettle
    \/ UploadSettle
    \/ ConfigChange

Spec == Init /\ [][Next]_vars

\* The event loop runs a settled promise's callbacks whenever it is free,
\* and a spawned command eventually exits.
FairSpec ==
    /\ Spec
    /\ SF_vars(ListSettle)
    /\ SF_vars(DownloadSettle)
    /\ SF_vars(UploadSettle)
    /\ WF_vars(EditorExit)
    /\ WF_vars(FolderExit)

\* The overlay with Remote active after its list fetch has settled with a
\* listing of any length up to MaxListLen, in a terminal of any height.
ScrollInit ==
    /\ config = InitialConfig
    /\ activeIndex = 0
    /\ viewMode = "drive"
    /\ driveFiles \in {toEntries(LongListing(n)) : n \in 0..MaxListLen}
    /\ isDriveLoading = FALSE
    /\ pending = {}
    /\ nextOp = 2
    /\ trace = <<>>
    /\ open = TRUE
    /\ rawMode = TRUE
    /\ spawned = "none"
    /\ handled = TRUE
    /\ terminalHeight \in TerminalRows

\* Cursor moves, source toggles, resizes and recomputations of the local list.
ScrollNext ==
    \/ MoveDown
    \/ MoveUp
    \/ ToggleSource
    \/ ListSettle
    \/ Resize
    \/ ConfigChange

ScrollSpec == ScrollInit /\ [][ScrollNext]_vars

\* The overlay on a Config that answers no path and no definition.
ResolverInit ==
    /\ config = [md |-> <<>>, defs |-> <<>>]
    /\ activeIndex = 0
    /\ viewMode = "local"
    /\ driveFiles = <<>>
    /\ isDriveLoading = FALSE
    /\ pending = {}
    /\ nextOp = 1
    /\ trace = <<>>
    /\ open = TRUE
    /\ rawMode = TRUE
    /\ spawned = "none"
    /\ handled = FALSE
    /\ terminalHeight = 24

\* Re-renders on Configs answering every sequence of documents and
\* definitions within the bounds.
ResolverNext ==
    \/ AddDocument
    \/ RegisterDefinition

ResolverSpec == ResolverInit /\ [][ResolverNext]_vars

TypeOK ==
    /\ config \in Configs
    /\ activeIndex \in Nat
    /\ viewMode \in {"local", "drive"}
    /\ isDriveLoading \in BOOLEAN
    /\ open \in BOOLEAN
    /\ rawMode \in BOOLEAN
    /\ spawned \in {"none", "editor", "folder"}
    /\ Len(trace) <= MaxTrace

(* ------------------------------ claims --------------------------------- *)

ListsInFlight == {p \in pending : p.kind = "list"}

Positions(tr, msgs, op) ==
    {i \in 1..Len(tr) : tr[i].ev = "feedback" /\ tr[i].msg \in msgs /\ tr[i].op = op}

ClosePositions(tr, by) == {i \in 1..Len(tr) : tr[i].ev = "close" /\ tr[i].msg = by}

\* C1: in every reachable state 0 <= cursorIndex < max(1, len(activeList)),
\* so the cursor is 0 whenever the active list is empty.
C1_CursorInRange ==
    /\ 0 <= activeIndex
    /\ activeIndex < Max(1, Len(files))
    /\ (Len(files) = 0 => activeIndex = 0)

\* C2: a list fetch starts only with Remote active, the cache empty and no
\* fetch in flight, and a toggle starts one only by making Remote active; at
\* most one fetch is in flight; none starts once the cache is populated.
C2_FetchStarts ==
    LET started == ListsInFlight' \ ListsInFlight IN
    /\ Cardinality(ListsInFlight') <= 1
    /\ started # {} =>
          /\ viewMode' = "drive"
          /\ Len(driveFiles) = 0
          /\ ListsInFlight = {}
          /\ ~isDriveLoading
    /\ (ToggleSource /\ started # {}) => viewMode = "local"
    /\ Len(driveFiles) > 0 => started = {}

C2_FetchOncePerEmptyCache == [][C2_FetchStarts]_vars

\* Remote is active again after a visit to Local (where the upload was
\* started), the cache is populated and only the first call was a list fetch.
C2_Witness ==
    /\ viewMode = "drive"
    /\ Len(driveFiles) > 0
    /\ nextOp = 3
    /\ \E p \in pending : p.kind = "upload" /\ p.op = 2
    /\ ListsInFlight = {}

\* C3: a failed list fetch leaves remoteLoading false and remoteEntries
\* empty with exactly one error feedback event emitted for it, and the next
\* toggle that makes Remote active starts a new fetch.
C3_FailureStep ==
    /\ \A p \in pending, fault \in {"auth", "request"} :
          ListSettleWith(p, fault, <<>>) =>
              /\ ~isDriveLoading'
              /\ driveFiles' = <<>>
              /\ Cardinality(Positions(trace', {"Failed to list Drive files"}, p.op)) = 1
    /\ (ToggleSource /\ viewMode' = "drive" /\ Len(driveFiles) = 0 /\ ~isDriveLoading)
          => ListsInFlight' # {}

C3_FailedFetchReported == [][C3_FailureStep]_vars

\* C4: Enter on a remote entry with an id emits "Downloading" and starts the
\* download without closing; that download's close comes after its
\* success/failure feedback, which comes after its "Downloading", and not
\* while it is in flight. Any other Enter closes at once, starting nothing.
C4_ActivateStep ==
    Activate =>
        IF viewMode = "drive" /\ activeFile # NoFile /\ activeFile.id # ""
        THEN /\ trace' = Append(trace, Feedback("info", "Downloading", "", nextOp))
             /\ pending' = pending \cup
                    {Promise(nextOp, "download", activeFile.id, activeFile.path)}
             /\ open'
        ELSE /\ trace' = Append(trace, CloseEvent("activate", 0))
             /\ pending' = pending
             /\ ~open'

C4_Order ==
    \A i \in ClosePositions(trace, "download") :
        LET n == trace[i].op IN
        /\ \A p \in pending : p.op # n
        /\ \E j \in Positions(trace, {"File downloaded to", "Download failed"}, n) :
              /\ j < i
              /\ \E k \in Positions(trace, {"Downloading"}, n) : k < j

C4_CloseAfterDownload == []C4_Order /\ [][C4_ActivateStep]_vars

C4_Witness ==
    /\ Len(trace) = 3
    /\ trace[1].msg = "Downloading"
    /\ trace[2].msg = "Download failed"
    /\ trace[3] = CloseEvent("download", trace[1].op)

\* C5: raw mode is off while the editor runs and on again whenever a key
\* event can be dispatched; while the editor runs nothing but its exit
\* happens; an error feedback is emitted exactly when the editor exits
\* non-zero or cannot be spawned.
C5_RawMode ==
    /\ spawned = "editor" => ~rawMode
    /\ (open /\ EventLoopFree) => rawMode

C5_EditorStep ==
    /\ spawned = "editor" =>
          /\ spawned' = "none"
          /\ rawMode'
          /\ UNCHANGED <<config, activeIndex, viewMode, driveFiles, isDriveLoading,
                         pending, nextOp, open>>
    /\ \A r \in SpawnResults :
          EditorExitWith(r) =>
              trace' = (IF r.error \/ r.status > 0
                        THEN Append(trace, Feedback("error", "external editor error", "", 0))
                        ELSE trace) \o <<EditorClosedEvent>>

C5_EditorRestoresRawMode == []C5_RawMode /\ [][C5_EditorStep]_vars

\* The editor failed, the failure was reported and raw mode is on again.
C5_Witness ==
    /\ Len(trace) = 2
    /\ trace[1] = Feedback("error", "external editor error", "", 0)
    /\ trace[2] = EditorClosedEvent
    /\ rawMode
    /\ spawned = "none"

\* C6: a download of a name that ends with an agent marker is written to
\* the skills directory, any other name to the working directory; so
\* download("xyz", "spec.agents") is written to the skills directory.
C6_DownloadStep ==
    \A p \in pending :
        DownloadSettleWith(p, "none") =>
            trace'[Len(trace') - 1].detail =
                (IF hasAgentMarker(p.fileName) THEN "skills" ELSE "cwd")

C6_AgentDownloadsToSkills == [][C6_DownloadStep]_vars

\* C7: Escape calls onClose in every state and does nothing else, and a key
\* event named escape takes the Close branch whatever else matches it.
C7_Priority ==
    /\ \A k \in Keys : k.name = "escape" => Branch(k) = "escape"
    /\ \A b \in Branches \ {"escape"} : "escape" \notin KeyNamesOf[b]
    /\ (open /\ EventLoopFree /\ Room(1)) => ENABLED Escape

C7_EscapeStep ==
    Escape =>
        /\ trace' = Append(trace, CloseEvent("escape", 0))
        /\ UNCHANGED <<config, activeIndex, viewMode, driveFiles, isDriveLoading,
                       pending, nextOp, rawMode, spawned>>

C7_CloseAlwaysCloses == []C7_Priority /\ [][C7_EscapeStep]_vars

\* Escape was pressed on the empty remote list with the list fetch and an
\* upload in flight.
C7_Witness ==
    /\ ClosePositions(trace, "escape") # {}
    /\ viewMode = "drive"
    /\ isDriveLoading
    /\ ListsInFlight # {}
    /\ \E p \in pending : p.kind = "upload"

\* C8: toggleSource flips the source, sets the cursor to 0 and leaves the
\* cached remote list as it is.
C8_ToggleStep ==
    ToggleSource =>
        /\ viewMode' = (IF viewMode = "local" THEN "drive" ELSE "local")
        /\ activeIndex' = 0
        /\ driveFiles' = driveFiles

C8_ToggleFlipsAndResets == [][C8_ToggleStep]_vars

\* Local is active again, at cursor 0, with the remote list still cached.
C8_Witness ==
    /\ viewMode = "local"
    /\ Len(driveFiles) > 0
    /\ activeIndex = 0
    /\ ~isDriveLoading

\* C9: whenever remoteLoading is true it eventually becomes false.
C9_LoadingCleared == isDriveLoading ~> ~isDriveLoading

\* A fetch was rejected and the flag is clear.
C9_Witness ==
    /\ ~isDriveLoading
    /\ \E n \in 1..MaxOps : Positions(trace, {"Failed to list Drive files"}, n) # {}

\* C10: closing cancels nothing: the calls in flight stay in flight, every
\* upload and download that is no longer in flight has emitted its
\* success/failure feedback, and after the close every call still settles.
StartedOps(tr) == {tr[i].op : i \in {j \in 1..Len(tr) : tr[j].msg \in {"Saving", "Downloading"}}}

SettleMsgs == {"Successfully uploaded", "Upload failed", "File downloaded to",
               "Download failed"}

C10_Settled ==
    \A n \in StartedOps(trace) :
        (\E p \in pending : p.op = n) \/ Positions(trace, SettleMsgs, n) # {}

C10_CloseStep ==
    (open /\ ~open') =>
        \A p \in pending :
            p \in pending' \/ Positions(trace', SettleMsgs, p.op) # {}

C11_SaveStep ==
    SaveToDrive =>
        /\ IF viewMode = "local" /\ activeIndex < Len(LocalFilesOf[config])
           THEN /\ pending' = pending \cup
                       {Promise(nextOp, "upload", "", LocalFilesOf[config][activeIndex + 1].path)}
                /\ trace' = Append(trace, Feedback("info", "Saving", "", nextOp))
           ELSE /\ pending' = pending
                /\ trace' = trace
        /\ UNCHANGED <<viewMode, activeIndex, driveFiles, isDriveLoading, open>>

C11_SettleStep ==
    \A p \in pending, fault \in {"none", "request"} :
        UploadSettleWith(p, fault) =>
            /\ UNCHANGED <<viewMode, activeIndex, driveFiles, isDriveLoading, open>>
            /\ Len(trace') = Len(trace) + 1
            /\ trace'[Len(trace')].ev = "feedback"

C11_PushOnlyUploads == [][C11_SaveStep /\ C11_SettleStep]_vars

\* An upload was started and has succeeded, and the overlay is still open.
C11_Witness ==
    /\ open
    /\ \E n \in 1..MaxOps : Positions(trace, {"Successfully uploaded"}, n) # {}

\* C12: Open-containing-folder does not wait for the file manager: while its
\* process runs the handler has returned and key events can be dispatched.
C12_FolderFireAndForget == (open /\ spawned = "folder") => ENABLED Unhandled

\* C13: every key event is reported as handled, whatever its key and the
\* state, and an unrecognized one changes no view state.
C13_Consumed ==
    /\ \A k \in Keys : Branch(k) \in Branches
    /\ UNION {KeyNamesOf[b] : b \in Branches} = KeyNames
    /\ (open /\ EventLoopFree) => ENABLED Unhandled

C13_HandlerReturned ==
    \/ Escape \/ Activate \/ SaveToDrive \/ ToggleSource \/ MoveDown \/ MoveUp
    \/ Unhandled \/ EditorExit \/ FolderExit
    \/ (OpenEditor /\ spawned' = "none")
    \/ (OpenFolder /\ spawned' = "none")

C13_KeyStep ==
    /\ C13_HandlerReturned => handled'
    /\ Unhandled => UNCHANGED <<config, activeIndex, viewMode, driveFiles,
                                isDriveLoading, pending, nextOp, trace, open,
                                rawMode, spawned, terminalHeight>>

C13_EveryKeyHandled == []C13_Consumed /\ [][C13_KeyStep]_vars

\* A key event that changed nothing was reported as handled.
C13_Witness ==
    /\ handled
    /\ open
    /\ trace = <<>>
    /\ pending = {}
    /\ nextOp = 1
    /\ activeIndex = 0
    /\ viewMode = "local"
    /\ config = InitialConfig

\* C18: the close callback is invoked at most once per overlay session.
C18_CloseAtMostOnce == Cardinality({i \in 1..Len(trace) : trace[i].ev = "close"}) <= 1

\* C19: remoteLoading implies an empty cached remote list: a fetch is in
\* flight only while nothing is cached, a settling fetch never overwrites a
\* non-empty cache, and the cursor addresses no remote entry meanwhile.
C19_Loading ==
    /\ isDriveLoading => Len(driveFiles) = 0
    /\ ListsInFlight # {} => (isDriveLoading /\ Len(driveFiles) = 0)
    /\ (ListsInFlight # {} /\ viewMode = "drive") => activeFile = NoFile

C19_FetchSettles ==
    \A p \in pending, fault \in ListFaults, listing \in DriveListings :
        ListSettleWith(p, fault, listing) => Len(driveFiles) = 0

C19_LoadingMeansEmptyCache == []C19_Loading /\ [][C19_FetchSettles]_vars

\* A second fetch is in flight, after the first one was rejected and left
\* the cache empty.
C19_Witness ==
    /\ isDriveLoading
    /\ Len(driveFiles) = 0
    /\ Positions(trace, {"Failed to list Drive files"}, 1) # {}
    /\ \E p \in ListsInFlight : p.op = 2

\* C14: the scroll window starts at clamp(c - floor(h/2), 0, max(0, n - h))
\* and ends at start + h, so start >= 0, end <= n whenever n >= h, and
\* start = 0 whenever n < h; for h = 10, c = 50, n = 200 it is [45, 55).
C14_Clamp(x, lo, hi) == IF x < lo THEN lo ELSE IF x > hi THEN hi ELSE x

C14_Half(h) == CHOOSE q \in 0..h : 2 * q <= h /\ h < 2 * q + 2

C14_ScrollWindow ==
    LET h == availableHeight(terminalHeight)
        n == Len(files)
        c == activeIndex
        start == startIdx(c, n, h)
        end == endIdx(c, n, h)
    IN  /\ h >= 5
        /\ (0 <= c /\ c < Max(1, n)) =>
              /\ start = C14_Clamp(c - C14_Half(h), 0, Max(0, n - h))
              /\ end = start + h
              /\ start >= 0
              /\ n >= h => end <= n
              /\ n < h => start = 0
              /\ visibleFiles(files, start, end) =
                     [i \in 1..(Min(end, n) - start) |-> files[start + i]]
        /\ startIdx(50, 200, 10) = 45
        /\ endIdx(50, 200, 10) = 55

\* The list is longer than the window and the window has scrolled: it
\* neither starts at the first entry nor ends at the last one.
C14_Witness ==
    LET h == availableHeight(terminalHeight)
        n == Len(files)
    IN  /\ activeIndex < n
        /\ startIdx(activeIndex, n, h) > 0
        /\ endIdx(activeIndex, n, h) < n

\* C16: move-up at index 0 leaves the cursor at 0 and move-down at the last
\* index of a non-empty list leaves it at the last index, however often
\* repeated; away from the boundaries each move changes the cursor by 1.
C16_MoveStep ==
    /\ MoveUp =>
          /\ activeIndex = 0 => activeIndex' = 0
          /\ activeIndex > 0 => activeIndex' = activeIndex - 1
    /\ MoveDown =>
          /\ (Len(files) > 0 /\ activeIndex = Len(files) - 1) => activeIndex' = activeIndex
          /\ activeIndex < Len(files) - 1 => activeIndex' = activeIndex + 1
          /\ (activeIndex = 0 /\ Len(files) = 0) => activeIndex' = 0
    /\ (MoveUp \/ MoveDown) => UNCHANGED <<viewMode, driveFiles, config>>

C16_MoveClamps == [][C16_MoveStep]_vars

\* The cursor is on the last entry of a list of several entries.
C16_Witness ==
    /\ Len(files) > 2
    /\ activeIndex = Len(files) - 1
    /\ viewMode = "drive"

\* C20: whenever the active list is non-empty the selected entry lies inside
\* the rendered window: startIndex <= cursorIndex < min(endIndex, len).
C20_CursorVisible ==
    LET h == availableHeight(terminalHeight)
        n == Len(files)
    IN  n > 0 =>
            /\ startIdx(activeIndex, n, h) <= activeIndex
            /\ activeIndex < Min(endIdx(activeIndex, n, h), n)

\* The same with the cursor inside the list (what C1 states of every state).
C20_InRangeCursorVisible == C1_CursorInRange => C20_CursorVisible

\* Lexicographic order of two sequences of numbers.
C15_SeqLess(x, y) ==
    \E k \in 0..Min(Len(x), Len(y)) :
        /\ \A i \in 1..k : x[i] = y[i]
        /\ \/ (k = Len(x) /\ k < Len(y))
           \/ (k < Len(x) /\ k < Len(y) /\ x[k + 1] < y[k + 1])

\* UTF-16 code unit of a character.
C15_CodeUnit(c) ==
    IF c = "." THEN 46
    ELSE IF c = "/" THEN 47
    ELSE IF IsUpper(c) THEN 64 + (CHOOSE i \in 1..26 : Upper[i] = c)
    ELSE 96 + (CHOOSE i \in 1..26 : Lower[i] = c)

C15_CodeUnits(s) == [i \in 1..Len(s) |-> C15_CodeUnit(s[i])]

\* Alphabetical key of a string (case folded, punctuation first) and its
\* case pattern (lower case first).
C15_Letters(s) ==
    [i \in 1..Len(s) |-> IF s[i] = "." THEN 1 ELSE IF s[i] = "/" THEN 2
                         ELSE 2 + (CHOOSE k \in 1..26 : Lower[k] = s[i] \/ Upper[k] = s[i])]

C15_Cases(s) == [i \in 1..Len(s) |-> IF IsUpper(s[i]) THEN 1 ELSE 0]

C15_LexicographicBefore(a, b) == C15_SeqLess(C15_CodeUnits(a), C15_CodeUnits(b))

C15_CollatesBefore(a, b) ==
    \/ C15_SeqLess(C15_Letters(a), C15_Letters(b))
    \/ (C15_Letters(a) = C15_Letters(b) /\ C15_SeqLess(C15_Cases(a), C15_Cases(b)))

C15_Union(cfg) ==
    {cfg.md[i] : i \in 1..Len(cfg.md)} \cup
    ({cfg.defs[i] : i \in 1..Len(cfg.defs)} \ {NoPath})

C15_Swap(s, i) == [s EXCEPT ![i] = s[i + 1], ![i + 1] = s[i]]

\* Each path of the union exactly once and no other path, and the same
\* output when two neighbours of either input change places (every order of
\* the inputs is reached by such exchanges).
C15_UnionOnce(fs) ==
    /\ {fs[i].path : i \in 1..Len(fs)} = C15_Union(config)
    /\ Len(fs) = Cardinality(C15_Union(config))
    /\ \A i \in 1..(Len(config.md) - 1) :
           localFiles([config EXCEPT !.md = C15_Swap(@, i)]) = fs
    /\ \A i \in 1..(Len(config.defs) - 1) :
           localFiles([config EXCEPT !.defs = C15_Swap(@, i)]) = fs

C15_KindOrder(fs) ==
    \A i, j \in 1..Len(fs) :
        (i < j /\ fs[i].type # fs[j].type) =>
            C15_LexicographicBefore(TypeChars(fs[i].type), TypeChars(fs[j].type))

C17_Name(p) ==
    LET S == {i \in 1..Len(p) : p[i] = "/"}
        last == IF S = {} THEN 0 ELSE CHOOSE i \in S : \A j \in S : j <= i
    IN SubSeq(p, last + 1, Len(p))

C17_Markers == { <<"a","g","e","n","t","s",".","m","d">>, <<".","a","g","e","n","t","s">> }

C17_NameHasMarker(p) ==
    LET name == C17_Name(p) IN
    \E m \in C17_Markers :
        /\ Len(name) >= Len(m)
        /\ \A i \in 1..Len(m) : LowerChar(name[Len(name) - Len(m) + i]) = m[i]

\* C17: every local entry is Agent or Memory; the backing file of a
\* registered definition is Agent whatever its name; any other path is Agent
\* exactly when its name ends, whatever its case, with an agent-file marker.
C17_Classified ==
    LET registered == {config.defs[i] : i \in 1..Len(config.defs)} \ {NoPath}
    IN \A fs \in {localFiles(config)} : \A i \in 1..Len(fs) :
           /\ fs[i].type \in {"Agent", "Memory"}
           /\ fs[i].path \in registered => fs[i].type = "Agent"
           /\ fs[i].path \notin registered =>
                  (fs[i].type = "Agent" <=> C17_NameHasMarker(fs[i].path))

\* A registered path without a marker is Agent, next to an unregistered
\* Agent with an upper-case marker and an unregistered Memory.
C17_Witness ==
    LET fs == localFiles(config) IN
    /\ config.defs = <<P_TOOL_MD>>
    /\ \E i \in 1..Len(fs) : fs[i].path = P_TOOL_MD /\ fs[i].type = "Agent"
    /\ \E i \in 1..Len(fs) : fs[i].path = P_AGENTS_MD /\ fs[i].type = "Agent"
    /\ \E i \in 1..Len(fs) : fs[i].path = P_NOTES_MD /\ fs[i].type = "Memory"

====
